---------------------------- MODULE Spec2Model ----------------------------
(***************************************************************************)
(* matchzoo.data_generator.DataGenerator: a keras Sequence that cuts the   *)
(* instance indices of a DataPack into batches of _batch_size, shuffled or *)
(* in order, and hands the indices of a batch (or of a slice of batches)   *)
(* to the DataPack to unpack.                                              *)
(*                                                                         *)
(* The DataPack is the generator's environment: the model keeps its size   *)
(* (what len(self._data_pack) returns) and the index lists the generator   *)
(* passes to it; what the DataPack answers is opaque.                      *)
(***************************************************************************)
EXTENDS Integers, Sequences, FiniteSets

(* Bounds of the model. *)
MaxInstances == 3
MaxBatchSize == 3
MaxNegBatchSize == 2
MaxItem == 3

VARIABLES
    data_pack_len,   \* len(self._data_pack), read live by num_instance
    _batch_size,     \* self._batch_size
    _shuffle,        \* self._shuffle
    _batch_indices,  \* self._batch_indices: a list of lists of instance indices
    ctor,            \* "pending", "ok", or the exception __init__ raised
    last_op,         \* the operation that produced this state
    item,            \* the argument of the last __getitem__
    raised,          \* the exception the last operation raised, or "none"
    ret,             \* the integer the last __len__ / num_instance returned
    unpack_calls     \* the index lists the last operation passed to
                     \* _get_batch_of_transformed_samples, in call order

vars == <<data_pack_len, _batch_size, _shuffle, _batch_indices, ctor,
          last_op, item, raised, ret, unpack_calls>>

-----------------------------------------------------------------------------
(* Python values and built-ins the code uses. *)

\* None as an optional integer: <<>> is None, <<k>> is the integer k.
None == <<>>
Some(k) == <<k>>

NoItem == [kind |-> "none", index |-> 0, start |-> None, stop |-> None]
IntItem(i) == [kind |-> "int", index |-> i, start |-> None, stop |-> None]
SliceItem(a, b) == [kind |-> "slice", index |-> 0, start |-> a, stop |-> b]

Min(a, b) == IF a < b THEN a ELSE b
Max(a, b) == IF a > b THEN a ELSE b

\* math.ceil(n / bs) for n >= 0 and bs # 0.
CeilFloorMutant(n, bs) ==
    IF bs > 0 THEN n \div bs ELSE -(n \div (-bs))

Ceil(n, bs) ==
    IF bs > 0 THEN (n + bs - 1) \div bs ELSE -(n \div (-bs))

\* len(self): __len__ divides by _batch_size (ZeroDivisionError on 0) and the
\* built-in len() rejects a negative result with ValueError.
__len__(n, bs) ==
    IF bs = 0 THEN [raised |-> "ZeroDivisionError", value |-> 0]
    ELSE IF Ceil(n, bs) < 0 THEN [raised |-> "ValueError", value |-> 0]
    ELSE [raised |-> "none", value |-> Ceil(n, bs)]

\* A slice bound of a list of length len, as Python's slice.indices() clamps
\* it (step None): None is the default, a negative bound counts from the end.
SliceBound(b, len, default) ==
    IF b = None THEN default
    ELSE IF b[1] < 0 THEN Max(b[1] + len, 0)
    ELSE Min(b[1], len)

PySliceOffByOneMutant(s, start, stop) ==
    LET lo == SliceBound(start, Len(s), 0)
        hi == SliceBound(stop, Len(s), Len(s))
    IN  SubSeq(s, lo + 1, hi - 1)

\* s[start:stop] for a list s.
PySlice(s, start, stop) ==
    LET lo == SliceBound(start, Len(s), 0)
        hi == SliceBound(stop, Len(s), Len(s))
    IN  SubSeq(s, lo + 1, hi)

\* s[i] for a list s: a negative i counts from the end, and an i outside
\* -len(s) .. len(s)-1 raises IndexError.
PyListGetNoNegativeMutant(s, i) ==
    IF 0 <= i /\ i < Len(s)
    THEN [raised |-> "none", value |-> s[i + 1]]
    ELSE [raised |-> "IndexError", value |-> <<>>]

PyListGetWrapMutant(s, i) ==
    IF s # <<>> /\ -Len(s) <= i
    THEN [raised |-> "none", value |-> s[(i % Len(s)) + 1]]
    ELSE [raised |-> "IndexError", value |-> <<>>]

PyListGet(s, i) ==
    IF -Len(s) <= i /\ i < Len(s)
    THEN [raised |-> "none", value |-> IF i < 0 THEN s[i + Len(s) + 1] ELSE s[i + 1]]
    ELSE [raised |-> "IndexError", value |-> <<>>]

\* sum(lists, []): the concatenation of a list of lists.
PySumFirstOnlyMutant(lists) == IF lists = <<>> THEN <<>> ELSE Head(lists)

RECURSIVE PySum(_)

PySum(lists) ==
    IF lists = <<>> THEN <<>> ELSE Head(lists) \o PySum(Tail(lists))

\* list(range(n)).
Range(n) == [i \in 1..n |-> i - 1]

\* The lists np.random.permutation(n).tolist() can return.
Permutations(n) ==
    {p \in [1..n -> 0..(n - 1)] : \A i, j \in 1..n : i # j => p[i] # p[j]}

-----------------------------------------------------------------------------
(* _set_indices *)

IndexPoolAlwaysShuffleMutant(n, sh) == Permutations(n)

\* index_pool: a random permutation when shuffling, else 0, ..., n-1.
IndexPool(n, sh) == IF sh THEN Permutations(n) ELSE {Range(n)}

SetIndicesExtraBatchMutant(n, bs, sh) ==
    LET len == __len__(n, bs)
    IN  IF len.raised # "none"
        THEN {[raised |-> len.raised, batch_indices |-> <<>>]}
        ELSE {[raised |-> "none",
               batch_indices |->
                   [i \in 1..(len.value + 1) |->
                       PySlice(pool, Some(bs * (i - 1)), Some(bs * i))]] :
              pool \in IndexPool(n, sh)}

\* The outcomes of _set_indices() on a DataPack of n instances: the new
\* _batch_indices and the exception raised.  _batch_indices is set to []
\* before len(self) is evaluated, so a raise leaves it empty.
_set_indices(n, bs, sh) ==
    LET len == __len__(n, bs)
    IN  IF len.raised # "none"
        THEN {[raised |-> len.raised, batch_indices |-> <<>>]}
        ELSE {[raised |-> "none",
               batch_indices |->
                   [i \in 1..len.value |->
                       PySlice(pool, Some(bs * (i - 1)), Some(bs * i))]] :
              pool \in IndexPool(n, sh)}

-----------------------------------------------------------------------------
(* Construction *)

\* DataGenerator(data_pack, batch_size, shuffle): the state __init__ leaves
\* with outcome o of its _set_indices() call.
AfterInit(n, bs, sh, o) ==
    /\ data_pack_len = n
    /\ _batch_size = bs
    /\ _shuffle = sh
    /\ _batch_indices = o.batch_indices
    /\ ctor = IF o.raised = "none" THEN "ok" ELSE o.raised
    /\ last_op = "__init__"
    /\ item = NoItem
    /\ raised = o.raised
    /\ ret = 0
    /\ unpack_calls = <<>>

\* A generator over a DataPack of 0..MaxInstances instances with a positive
\* batch size.
Init ==
    \E n \in 0..MaxInstances, bs \in 1..MaxBatchSize, sh \in BOOLEAN :
        \E o \in _set_indices(n, bs, sh) : AfterInit(n, bs, sh, o)

-----------------------------------------------------------------------------
(* Operations *)

Items ==
    {IntItem(i) : i \in (-MaxItem)..MaxItem}
    \cup {SliceItem(a, b) : a, b \in {None} \cup {Some(k) : k \in (-1)..MaxItem}}

Frame == UNCHANGED <<data_pack_len, _batch_size, _shuffle, ctor>>

\* self._get_batch_of_transformed_samples(indices): one
\* self._data_pack[indices].unpack() call.
_get_batch_of_transformed_samples(indices) == <<indices>>

\* generator[it] on the batches bi: the exception raised and the unpack calls
\* made.  A slice concatenates the batches it selects into one call.
getitem(bi, it) ==
    IF it.kind = "slice"
    THEN [raised |-> "none",
          calls |-> _get_batch_of_transformed_samples(
                        PySum(PySlice(bi, it.start, it.stop)))]
    ELSE LET got == PyListGet(bi, it.index)
         IN  IF got.raised = "none"
             THEN [raised |-> "none",
                   calls |-> _get_batch_of_transformed_samples(got.value)]
             ELSE [raised |-> got.raised, calls |-> <<>>]

GetItemPopMutant ==
    /\ ctor = "ok"
    /\ \E it \in Items :
          /\ item' = it
          /\ raised' = getitem(_batch_indices, it).raised
          /\ unpack_calls' = getitem(_batch_indices, it).calls
          /\ _batch_indices' =
                 IF it.kind = "int" /\ getitem(_batch_indices, it).raised = "none"
                 THEN Tail(_batch_indices) ELSE _batch_indices
    /\ last_op' = "__getitem__"
    /\ ret' = 0
    /\ Frame

__getitem__ ==
    /\ ctor = "ok"
    /\ \E it \in Items :
          /\ item' = it
          /\ raised' = getitem(_batch_indices, it).raised
          /\ unpack_calls' = getitem(_batch_indices, it).calls
    /\ last_op' = "__getitem__"
    /\ ret' = 0
    /\ UNCHANGED _batch_indices
    /\ Frame

\* len(generator)
Length ==
    /\ ctor = "ok"
    /\ LET len == __len__(data_pack_len, _batch_size)
       IN  /\ raised' = len.raised
           /\ ret' = len.value
    /\ last_op' = "__len__"
    /\ item' = NoItem
    /\ unpack_calls' = <<>>
    /\ UNCHANGED _batch_indices
    /\ Frame

\* generator.num_instance
num_instance ==
    /\ ctor = "ok"
    /\ ret' = data_pack_len
    /\ raised' = "none"
    /\ last_op' = "num_instance"
    /\ item' = NoItem
    /\ unpack_calls' = <<>>
    /\ UNCHANGED _batch_indices
    /\ Frame

\* What a call of on_epoch_end() / reset() can leave: the outcomes of the
\* _set_indices() call each makes.
OnEpochEndKeepMutant ==
    {[raised |-> "none", batch_indices |-> _batch_indices]}

on_epoch_end_outcomes == _set_indices(data_pack_len, _batch_size, _shuffle)

reset_outcomes == _set_indices(data_pack_len, _batch_size, _shuffle)

Rebuilt(op, o) ==
    /\ _batch_indices' = o.batch_indices
    /\ raised' = o.raised
    /\ last_op' = op
    /\ item' = NoItem
    /\ ret' = 0
    /\ unpack_calls' = <<>>
    /\ Frame

on_epoch_end ==
    /\ ctor = "ok"
    /\ \E o \in on_epoch_end_outcomes : Rebuilt("on_epoch_end", o)

reset ==
    /\ ctor = "ok"
    /\ \E o \in reset_outcomes : Rebuilt("reset", o)

Next == __getitem__ \/ Length \/ num_instance \/ on_epoch_end \/ reset

\* The generator over a DataPack nobody changes.
Spec == Init /\ [][Next]_vars

-----------------------------------------------------------------------------
(* The DataPack changing size under the generator *)

\* The owner of the DataPack adds or drops instances: len(self._data_pack)
\* changes, nothing of the generator does.
DataPackResize ==
    /\ ctor = "ok"
    /\ \E n \in (0..MaxInstances) \ {data_pack_len} : data_pack_len' = n
    /\ last_op' = "data_pack_resize"
    /\ item' = NoItem
    /\ raised' = "none"
    /\ ret' = 0
    /\ unpack_calls' = <<>>
    /\ UNCHANGED <<_batch_size, _shuffle, _batch_indices, ctor>>

NextLive == Next \/ DataPackResize

SpecLive == Init /\ [][NextLive]_vars

-----------------------------------------------------------------------------
(* Construction with any batch size *)

\* The call DataGenerator(data_pack, batch_size, shuffle) about to run, the
\* batch size any integer of -MaxNegBatchSize..MaxBatchSize.
InitCtor ==
    /\ data_pack_len \in 0..MaxInstances
    /\ _batch_size \in (-MaxNegBatchSize)..MaxBatchSize
    /\ _shuffle \in BOOLEAN
    /\ _batch_indices = <<>>
    /\ ctor = "pending"
    /\ last_op = "none"
    /\ item = NoItem
    /\ raised = "none"
    /\ ret = 0
    /\ unpack_calls = <<>>

\* __init__ stores its arguments and calls _set_indices(); an exception of
\* that call leaves no generator.
__init__ ==
    /\ ctor = "pending"
    /\ \E o \in _set_indices(data_pack_len, _batch_size, _shuffle) :
          /\ _batch_indices' = o.batch_indices
          /\ ctor' = IF o.raised = "none" THEN "ok" ELSE o.raised
          /\ raised' = o.raised
    /\ last_op' = "__init__"
    /\ item' = NoItem
    /\ ret' = 0
    /\ unpack_calls' = <<>>
    /\ UNCHANGED <<data_pack_len, _batch_size, _shuffle>>

NextCtor == __init__ \/ Next

SpecCtor == InitCtor /\ [][NextCtor]_vars

-----------------------------------------------------------------------------
(* Properties *)

\* ceil(n / bs) for bs > 0, by its defining inequalities: the k with
\* (k - 1) * bs < n <= k * bs.
BatchCount(n, bs) == CHOOSE k \in 0..n : k * bs >= n /\ (k - 1) * bs < n

\* length() as the specification defines it, on the DataPack's current size.
LengthNow == BatchCount(data_pack_len, _batch_size)

\* The positions <<b, j>> of the stored partition: index j of batch b.
Positions ==
    UNION {{<<b, j>> : j \in 1..Len(_batch_indices[b])} :
           b \in 1..Len(_batch_indices)}

\* The ascending run i*bs, ..., min((i+1)*bs, n) - 1 of batch i (from 0).
AscendingBatch(i, n, bs) ==
    [j \in 1..(Min((i + 1) * bs, n) - i * bs) |-> i * bs + j - 1]

\* C1: with the DataPack's size unchanged, after construction and after any
\* reset() / on_epoch_end() calls the batches of the stored partition hold
\* every index of 0 .. num_instance-1 exactly once and nothing else, shuffled
\* or not.
C1_PartitionCoversRange ==
    /\ \A p \in Positions :
          _batch_indices[p[1]][p[2]] \in 0..(data_pack_len - 1)
    /\ \A k \in 0..(data_pack_len - 1) :
          Cardinality({p \in Positions : _batch_indices[p[1]][p[2]] = k}) = 1

C1_Witness ==
    /\ _shuffle
    /\ last_op \in {"reset", "on_epoch_end"}
    /\ data_pack_len = 3
    /\ _batch_size = 2
    /\ _batch_indices[1][1] # 0
    /\ Cardinality(Positions) = 3

\* C2: len(generator) returns ceil(num_instance / batch_size) for the size the
\* DataPack has at the call: 49 with batch size 1 gives 49, with batch size 32
\* gives 2, and no instance gives 0.
C2_LengthIsCeil ==
    /\ last_op = "__len__" =>
          /\ raised = "none"
          /\ ret * _batch_size >= data_pack_len
          /\ (ret - 1) * _batch_size < data_pack_len
          /\ (data_pack_len = 0 => ret = 0)
    /\ __len__(49, 1) = [raised |-> "none", value |-> 49]
    /\ __len__(49, 32) = [raised |-> "none", value |-> 2]
    /\ __len__(0, 32) = [raised |-> "none", value |-> 0]

C2_Witness ==
    /\ last_op = "__len__"
    /\ data_pack_len = 3
    /\ _batch_size = 2
    /\ ret = 2
    /\ Len(_batch_indices) # ret

\* C3: without shuffling, stored batch i is exactly i*batch_size, ...,
\* min((i+1)*batch_size, num_instance) - 1 for every i below length(), and
\* generator[i] unpacks exactly those indices in that order.
C3_UnshuffledBatchesAscend ==
    ~_shuffle =>
       /\ Len(_batch_indices) >= LengthNow
       /\ \A i \in 0..(LengthNow - 1) :
             _batch_indices[i + 1] = AscendingBatch(i, data_pack_len, _batch_size)
       /\ (last_op = "__getitem__" /\ item.kind = "int"
             /\ 0 <= item.index /\ item.index < LengthNow) =>
               /\ raised = "none"
               /\ unpack_calls =
                    <<AscendingBatch(item.index, data_pack_len, _batch_size)>>

C3_Witness ==
    /\ ~_shuffle
    /\ last_op = "__getitem__"
    /\ item = IntItem(1)
    /\ data_pack_len = 3
    /\ _batch_size = 2
    /\ unpack_calls = << <<2>> >>

\* What generator[i] would unpack now, for i in range.
SingleBatch(i) == getitem(_batch_indices, IntItem(i)).calls[1]

RECURSIVE ConcatBatches(_, _)
ConcatBatches(a, b) ==
    IF a >= b THEN <<>> ELSE SingleBatch(a) \o ConcatBatches(a + 1, b)

\* C4: generator[a:b] with 0 <= a <= b <= length() makes exactly one unpack
\* call, on the in-order concatenation of the index lists generator[a], ...,
\* generator[b-1] would each unpack, shuffled or not ([:b] is [0:b]).
C4_RangeIsConcatenation ==
    (last_op = "__getitem__" /\ item.kind = "slice" /\ item.stop # None) =>
        LET a == IF item.start = None THEN 0 ELSE item.start[1]
            b == item.stop[1]
        IN  (0 <= a /\ a <= b /\ b <= LengthNow) =>
               /\ raised = "none"
               /\ Len(unpack_calls) = 1
               /\ unpack_calls[1] = ConcatBatches(a, b)

C4_Witness ==
    /\ _shuffle
    /\ last_op = "__getitem__"
    /\ item = SliceItem(Some(1), Some(3))
    /\ data_pack_len = 3
    /\ _batch_size = 1
    /\ Len(unpack_calls) = 1
    /\ Len(unpack_calls[1]) = 2
    /\ unpack_calls[1][1] > unpack_calls[1][2]

\* C5: generator[i] with i >= length() raises IndexError, makes no unpack call
\* and leaves the stored partition as it was.
C5_IndexAtOrPastLengthFails ==
    [][(last_op' = "__getitem__" /\ item'.kind = "int"
          /\ item'.index >= BatchCount(data_pack_len', _batch_size')) =>
            /\ raised' = "IndexError"
            /\ unpack_calls' = <<>>
            /\ _batch_indices' = _batch_indices]_vars

C5_Witness ==
    /\ last_op = "__getitem__"
    /\ item.kind = "int"
    /\ item.index = LengthNow
    /\ LengthNow = 2
    /\ raised = "IndexError"

\* C6 as stated: generator[i] with a negative i raises IndexError and returns
\* no batch.
C6_NegativeIndexFails ==
    (last_op = "__getitem__" /\ item.kind = "int" /\ item.index < 0) =>
        /\ raised = "IndexError"
        /\ unpack_calls = <<>>

\* C6 amended: generator[i] with a negative i raises IndexError and returns
\* no batch only for i < -length(); for -length() <= i <= -1 it counts from
\* the end and unpacks the batch stored at position length() + i.
C6_NegativeIndexCountsFromEnd ==
    (last_op = "__getitem__" /\ item.kind = "int" /\ item.index < 0) =>
        IF item.index < -LengthNow
        THEN /\ raised = "IndexError"
             /\ unpack_calls = <<>>
        ELSE /\ raised = "none"
             /\ unpack_calls = <<_batch_indices[LengthNow + item.index + 1]>>

C6_Witness ==
    /\ last_op = "__getitem__"
    /\ item = IntItem(-1)
    /\ LengthNow = 2
    /\ raised = "none"
    /\ unpack_calls = <<_batch_indices[2]>>
    /\ unpack_calls # <<_batch_indices[1]>>

\* Every stored batch but the last holds exactly batch_size indices, and the
\* last is non-empty and holds at most batch_size.
BatchSizesOk ==
    \A b \in 1..Len(_batch_indices) :
        /\ Len(_batch_indices[b]) >= 1
        /\ Len(_batch_indices[b]) <= _batch_size
        /\ (b < Len(_batch_indices) => Len(_batch_indices[b]) = _batch_size)

\* C7 as stated: at any time the stored partition has exactly
\* ceil(num_instance / batch_size) batches for the DataPack's current size,
\* every batch but the last of batch_size indices, the last non-empty and of
\* at most batch_size.
C7_BatchCountTracksLiveSize ==
    /\ Len(_batch_indices) = LengthNow
    /\ BatchSizesOk

\* C7 amended: right after construction, reset() or on_epoch_end() the stored
\* partition has exactly ceil(num_instance / batch_size) batches for the
\* DataPack's size at that moment; a later change of the DataPack's size
\* leaves the stored partition alone, so the count is that of the last
\* rebuild, not of the live size.  At any time every batch but the last has
\* batch_size indices and the last is non-empty and of at most batch_size.
C7_BatchCountAsOfLastRebuild ==
    /\ last_op \in {"__init__", "reset", "on_epoch_end"} =>
          Len(_batch_indices) = LengthNow
    /\ BatchSizesOk

C7_Witness ==
    /\ last_op = "on_epoch_end"
    /\ data_pack_len = 3
    /\ _batch_size = 2
    /\ Len(_batch_indices) = 2
    /\ Len(_batch_indices[2]) = 1

\* C8: reset() and on_epoch_end() have the same effect: in every state the
\* outcomes reset() can produce are those on_epoch_end() can produce; without
\* shuffling either call leaves the stored partition as it was, so it stays
\* what construction made it.
C8_ResetEqualsOnEpochEnd ==
    /\ [](reset_outcomes = on_epoch_end_outcomes)
    /\ [][(~_shuffle /\ last_op' \in {"reset", "on_epoch_end"}) =>
             _batch_indices' = _batch_indices]_vars

C8_Witness ==
    /\ ~_shuffle
    /\ last_op = "reset"
    /\ data_pack_len = 3
    /\ _batch_size = 2
    /\ _batch_indices = << <<0, 1>>, <<2>> >>

\* C9 as stated: construction with batch_size <= 0 fails and builds no
\* partition (any exception is taken for the InvalidConfiguration error).
C9_NonPositiveBatchSizeRejected ==
    (ctor # "pending" /\ _batch_size <= 0) => ctor # "ok"

\* C10: only construction, reset() and on_epoch_end() change the stored
\* partition: generator[item] (index or slice, raising or not), len() and
\* num_instance leave the partition, the batch size and the shuffle flag as
\* they were, so what generator[i] unpacks is the same before and after.
C10_OnlyRebuildsChangePartition ==
    [][/\ _batch_size' = _batch_size
       /\ _shuffle' = _shuffle
       /\ last_op' \notin {"reset", "on_epoch_end"} =>
             /\ _batch_indices' = _batch_indices
             /\ \A i \in 0..(Len(_batch_indices) - 1) :
                   getitem(_batch_indices', IntItem(i)) =
                       getitem(_batch_indices, IntItem(i))]_vars

C10_Witness ==
    /\ _shuffle
    /\ last_op = "__getitem__"
    /\ item = IntItem(0)
    /\ raised = "none"
    /\ Len(_batch_indices) = 2
    /\ unpack_calls = <<_batch_indices[1]>>

=============================================================================
